---------------------------- MODULE Spec2Model ----------------------------
(***************************************************************************)
(* A model of tp_filter.py, the TP (UiB) iCal filter: unfold_ical,          *)
(* parse_events, filter_events, rebuild_ical and the pipeline of main().    *)
(*                                                                         *)
(* Text is a sequence of atoms.  An atom is a string that stands for the    *)
(* literal text of its name: the four characters the regular expressions    *)
(* of the program tell apart ("\r", "\n", " ", "\t"), and longer literals   *)
(* ("BEGIN:VEVENT", "SUMMARY", "INF102", "Forelesning", ...).  The atoms    *)
(* are cut so that every literal the program searches for ("gruppe" in      *)
(* "Seminargruppe", "7" in "07") is a whole number of atoms, which makes    *)
(* Python's substring test the containment of one atom sequence in          *)
(* another.                                                                *)
(***************************************************************************)
EXTENDS Naturals, Sequences, FiniteSets

VARIABLES
    pc,       \* position of main(): "start", "fetched", "parsed", "filtered", "done"
    remote,   \* the document served at ICAL_SUBSCRIPTION_URL
    src,      \* main(): src
    events,   \* main(): events
    kept,     \* main(): kept
    out,      \* the content written to OUTPUT_FILE
    upc,      \* position of the unfold runs: "x", "once", "twice"
    text,     \* unfold runs: the text x
    once,     \* unfold_ical(x)
    twice     \* unfold_ical(unfold_ical(x))

vars == <<pc, remote, src, events, kept, out, upc, text, once, twice>>

-----------------------------------------------------------------------------
(* Bounds *)

MaxEvents == 2

MaxTextLen == 4

-----------------------------------------------------------------------------
(* Characters and text helpers *)

CR == "\r"

LF == "\n"

SP == " "

TAB == "\t"

\* str.strip() with no argument strips whitespace; these are the whitespace
\* characters that occur in the texts of the model.
Whitespace == {SP, TAB, CR, LF}

\* pat occurs in s at index i (the comparison a regex literal or `in` makes).
MatchAt(s, pat, i) ==
    /\ i >= 1
    /\ i + Len(pat) - 1 <= Len(s)
    /\ \A k \in 1..Len(pat) : s[i + k - 1] = pat[k]

\* Python's `pat in s`.
Contains(s, pat) == \E i \in 1..(Len(s) + 1) : MatchAt(s, pat, i)

\* The indices of s that hold the atom a, i.e. the starts of the matches of
\* the one-atom literal a.
Positions(s, a) == {i \in 1..Len(s) : s[i] = a}

SetMin(S) == CHOOSE m \in S : \A n \in S : m <= n

SetMax(S) == CHOOSE m \in S : \A n \in S : n <= m

\* Python's s[i-1:j] for 1-based inclusive bounds; empty when j < i.
Slice(s, i, j) == IF j < i THEN <<>> ELSE SubSeq(s, i, j)

\* Python's str.strip().
strip(s) ==
    LET keep == {i \in 1..Len(s) : s[i] \notin Whitespace}
    IN  IF keep = {} THEN <<>> ELSE SubSeq(s, SetMin(keep), SetMax(keep))

\* Python's str.rstrip().
rstrip(s) ==
    LET keep == {i \in 1..Len(s) : s[i] \notin Whitespace}
    IN  IF keep = {} THEN <<>> ELSE SubSeq(s, 1, SetMax(keep))

\* Python's s.endswith(<<a>>) for a one-atom literal.
EndsWith(s, a) == Len(s) >= 1 /\ s[Len(s)] = a

-----------------------------------------------------------------------------
(* unfold_ical: re.sub(r"(?:\r?\n)[ \t]", "", text)                         *)

\* The length of the match of (?:\r?\n)[ \t] that starts at index i, 0 if none.
FoldAt(s, i) ==
    IF /\ i + 2 <= Len(s)
       /\ s[i] = CR /\ s[i + 1] = LF /\ s[i + 2] \in {SP, TAB}
    THEN 3
    ELSE IF /\ i + 1 <= Len(s)
            /\ s[i] = LF /\ s[i + 1] \in {SP, TAB}
         THEN 2
         ELSE 0

RECURSIVE unfold_from(_, _)
\* re.sub scans left to right, deletes each match and resumes after it; the
\* text it has produced is never scanned again.
unfold_from(s, i) ==
    IF i > Len(s) THEN <<>>
    ELSE IF FoldAt(s, i) > 0 THEN unfold_from(s, i + FoldAt(s, i))
         ELSE <<s[i]>> \o unfold_from(s, i + 1)

RECURSIVE unfold_keep_break(_, _)
\* unfold_from with the line break of every fold left in place.
unfold_keep_break(s, i) ==
    IF i > Len(s) THEN <<>>
    ELSE IF FoldAt(s, i) > 0
         THEN SubSeq(s, i, i + FoldAt(s, i) - 2)
                  \o unfold_keep_break(s, i + FoldAt(s, i))
         ELSE <<s[i]>> \o unfold_keep_break(s, i + 1)

\* A faulty variant of unfold_ical: the pattern (?<=\n)[ \t], which deletes the white
\* space that opens a continuation line but not the line break before it.
unfold_ical_keep_break(s) == unfold_keep_break(s, 1)

unfold_ical(s) == unfold_from(s, 1)

-----------------------------------------------------------------------------
(* CONFIG *)

BEGIN_VEVENT == "BEGIN:VEVENT"

END_VEVENT == "END:VEVENT"

BEGIN_VCALENDAR == "BEGIN:VCALENDAR"

END_VCALENDAR == "END:VCALENDAR"

\* course_code() returns None when the summary holds no course code.
None == "<None>"

\* COURSE_KEEP_RULES: course code -> the patterns to keep for group-like
\* events.
COURSE_KEEP_RULES ==
    [c \in {"INF102", "INF113", "INF214", "MAT111", "MAT221"} |->
        CASE c = "INF102" -> << <<"Aktiv", " ", "time", " ", "7">> >>
          [] c = "INF113" -> << <<"Gruppe", " ", "4">> >>
          [] c = "INF214" -> << <<"Gruppe", " ", "1">> >>
          [] c = "MAT111" -> << <<"Gruppe", " ", "0", "2">> >>
          [] c = "MAT221" -> << >>]

GROUP_WORDS ==
    << <<"gruppe">>, <<"group">>, <<"aktiv", " ", "time">>, <<"lab">>,
       <<"øving">>, <<"övning">>, <<"exercise", " ", "class">>,
       <<"class", " ", "group">>, <<"seminar", "gruppe">>,
       <<"workshop", "gruppe">> >>

ALWAYS_KEEP_WORDS ==
    << <<"forelesning">>, <<"seminar">>, <<"regneverksted">>,
       <<"oppgavesesjon">>, <<"review">>, <<"lecture">>, <<"workshop">> >>

-----------------------------------------------------------------------------
(* Character classes of the atoms *)

\* The atoms that match [A-Z]{3}\d{3} in full.  No other atom, and no run of
\* atoms of the model's texts, holds a match of it between word boundaries
\* ("CHEM101" has four letters, "inf102" is lower case).
CodeShaped == {"INF102", "INF113", "INF214", "MAT111", "MAT221", "KJE101"}

\* Atoms whose characters are not word characters (\w); at every other atom
\* the regex \b sees a word character on that side.
NonWordAtoms == Whitespace \cup {":", ";LANGUAGE=en"}

\* Atoms that hold a colon, where [^:]* stops, and what follows the colon
\* inside the atom.
AfterColon(a) ==
    CASE a = ":" -> <<>>
      [] a \in {BEGIN_VEVENT, END_VEVENT} -> <<"VEVENT">>
      [] a \in {BEGIN_VCALENDAR, END_VCALENDAR} -> <<"VCALENDAR">>

ColonAtoms == {":", BEGIN_VEVENT, END_VEVENT, BEGIN_VCALENDAR, END_VCALENDAR}

\* Atoms that start with ";" (the start of a property's parameters).
SemicolonAtoms == {";LANGUAGE=en"}

\* str.lower() of one atom; an atom without an upper-case letter is its own
\* lower case.
LowerAtom(a) ==
    CASE a = "INF102" -> "inf102"
      [] a = "INF113" -> "inf113"
      [] a = "INF214" -> "inf214"
      [] a = "MAT111" -> "mat111"
      [] a = "MAT221" -> "mat221"
      [] a = "KJE101" -> "kje101"
      [] a = "CHEM101" -> "chem101"
      [] a = "Forelesning" -> "forelesning"
      [] a = "Seminar" -> "seminar"
      [] a = "Gruppe" -> "gruppe"
      [] a = "Lab" -> "lab"
      [] a = "Aktiv" -> "aktiv"
      [] a = "Eksamen" -> "eksamen"
      [] OTHER -> a

\* Python's str.lower().
lower(s) == [i \in 1..Len(s) |-> LowerAtom(s[i])]

-----------------------------------------------------------------------------
(* class Event: raw, summary, description and the derived properties *)

Event(raw, summary, description) ==
    [raw |-> raw, summary |-> summary, description |-> description]

\* re.search(r"\b([A-Z]{3}\d{3})\b", summary): the leftmost code-shaped
\* atom with a word boundary on both sides.
CodeMatches(summary) ==
    {i \in 1..Len(summary) :
        /\ summary[i] \in CodeShaped
        /\ (i = 1 \/ summary[i - 1] \in NonWordAtoms)
        /\ (i = Len(summary) \/ summary[i + 1] \in NonWordAtoms)}

course_code(ev) ==
    IF CodeMatches(ev.summary) = {} THEN None
    ELSE ev.summary[SetMin(CodeMatches(ev.summary))]

is_group_like(ev) ==
    \E k \in 1..Len(GROUP_WORDS) : Contains(lower(ev.summary), GROUP_WORDS[k])

is_always_keep(ev) ==
    \E k \in 1..Len(ALWAYS_KEEP_WORDS) :
        Contains(lower(ev.summary), ALWAYS_KEEP_WORDS[k])

-----------------------------------------------------------------------------
(* parse_events *)

RECURSIVE SortedSeq(_)
\* The elements of a set of indices in increasing order (the order in which
\* a regex scan reports its matches).
SortedSeq(S) ==
    IF S = {} THEN <<>> ELSE <<SetMin(S)>> \o SortedSeq(S \ {SetMin(S)})

\* re.split(r"(?=BEGIN:VEVENT)", s): s is cut in front of every marker; the
\* first piece is what precedes the first marker (empty when s starts with
\* one), and s itself when there is no marker.
split_at_begin(s) ==
    LET cuts == SortedSeq(Positions(s, BEGIN_VEVENT))
        n == Len(cuts)
    IN  IF n = 0 THEN <<s>>
        ELSE <<Slice(s, 1, cuts[1] - 1)>> \o
             [k \in 1..n |->
                 Slice(s, cuts[k], IF k < n THEN cuts[k + 1] - 1 ELSE Len(s))]

\* Where the value starts if ^name(?:;[^:]*)?: matches at index p of blk, as
\* <<index of the atom that holds the colon>>, or <<>> if it does not match.
\* ^ (MULTILINE) is the start of blk or the position after a "\n"; [^:]*
\* runs over every atom without a colon, line breaks included.
PropColon(name, blk, p) ==
    IF ~(/\ p <= Len(blk)
         /\ blk[p] = name
         /\ (p = 1 \/ blk[p - 1] = LF)
         /\ p + 1 <= Len(blk))
    THEN <<>>
    ELSE IF blk[p + 1] = ":" THEN <<p + 1>>
    ELSE IF blk[p + 1] \in SemicolonAtoms
         THEN LET colons == {q \in (p + 2)..Len(blk) : blk[q] \in ColonAtoms}
              IN  IF colons = {} THEN <<>> ELSE <<SetMin(colons)>>
         ELSE <<>>

\* prop(name) of parse_events: the first match wins; (.*)$ runs to the end of
\* the line ("." matches "\r" but not "\n"); the value is stripped; "" when
\* nothing matches.
prop(name, blk) ==
    LET starts == {p \in 1..Len(blk) : PropColon(name, blk, p) /= <<>>}
    IN  IF starts = {} THEN <<>>
        ELSE LET q == PropColon(name, blk, SetMin(starts))[1]
                 breaks == {j \in (q + 1)..Len(blk) : blk[j] = LF}
                 last == IF breaks = {} THEN Len(blk) ELSE SetMin(breaks) - 1
             IN  strip(AfterColon(blk[q]) \o Slice(blk, q + 1, last))

\* The loop of parse_events over the pieces of an already unfolded text.
events_of_blocks(blocks) ==
    LET with == SelectSeq(blocks, LAMBDA blk : Contains(blk, <<BEGIN_VEVENT>>))
    IN  [k \in 1..Len(with) |->
            Event(with[k], prop("SUMMARY", with[k]), prop("DESCRIPTION", with[k]))]

\* A faulty variant of parse_events: the text is split as it came, without unfolding.
parse_events_folded(ical_text) == events_of_blocks(split_at_begin(ical_text))

parse_events(ical_text) ==
    events_of_blocks(split_at_begin(unfold_ical(ical_text)))

-----------------------------------------------------------------------------
(* filter_events *)

\* [p.lower() for p in COURSE_KEEP_RULES.get(code, []) if p.strip()]
patterns_of(code) ==
    LET listed == SelectSeq(COURSE_KEEP_RULES[code], LAMBDA p : strip(p) /= <<>>)
    IN  [k \in 1..Len(listed) |-> lower(listed[k])]

\* A faulty variant of keep_event: the group-like test is made before the always-keep
\* test.
keep_event_group_first(ev) ==
    LET code == course_code(ev)
    IN  IF code = None THEN TRUE
        ELSE IF code \notin DOMAIN COURSE_KEEP_RULES THEN FALSE
        ELSE IF is_group_like(ev)
             THEN \E k \in 1..Len(patterns_of(code)) :
                      Contains(lower(ev.summary), patterns_of(code)[k])
             ELSE TRUE

\* A faulty variant of keep_event: an event without a course code goes through the
\* same tests as the others and is dropped as not enrolled.
keep_event_drop_unknown(ev) ==
    LET code == course_code(ev)
    IN  IF code \notin DOMAIN COURSE_KEEP_RULES THEN FALSE
        ELSE IF is_always_keep(ev) THEN TRUE
        ELSE IF is_group_like(ev)
             THEN \E k \in 1..Len(patterns_of(code)) :
                      Contains(lower(ev.summary), patterns_of(code)[k])
             ELSE TRUE

\* The body of the loop of filter_events: whether ev is appended to kept.
keep_event(ev) ==
    LET code == course_code(ev)
    IN  IF code = None THEN TRUE
        ELSE IF code \notin DOMAIN COURSE_KEEP_RULES THEN FALSE
        ELSE IF is_always_keep(ev) THEN TRUE
        ELSE IF is_group_like(ev)
             THEN LET patterns == patterns_of(code)
                      s == lower(ev.summary)
                  IN  IF patterns = <<>> THEN FALSE
                      ELSE \E k \in 1..Len(patterns) : Contains(s, patterns[k])
             ELSE TRUE

RECURSIVE filter_loop(_, _, _)
\* for ev in events: ... kept.append(ev), from the i-th event on.
filter_loop(evs, i, acc) ==
    IF i > Len(evs) THEN acc
    ELSE filter_loop(evs, i + 1,
                     IF keep_event(evs[i]) THEN Append(acc, evs[i]) ELSE acc)

RECURSIVE filter_loop_prepend(_, _, _)
\* filter_loop with every kept event put in front of the ones kept so far.
filter_loop_prepend(evs, i, acc) ==
    IF i > Len(evs) THEN acc
    ELSE filter_loop_prepend(evs, i + 1,
                     IF keep_event(evs[i]) THEN <<evs[i]>> \o acc ELSE acc)

\* A faulty variant of filter_events: kept.insert(0, ev) in place of kept.append(ev).
filter_events_prepend(evs) == filter_loop_prepend(evs, 1, <<>>)

filter_events(evs) == filter_loop(evs, 1, <<>>)

-----------------------------------------------------------------------------
(* rebuild_ical *)

\* re.search(r"BEGIN:VEVENT.*?END:VEVENT", block, flags=re.DOTALL): the
\* leftmost BEGIN:VEVENT that has an END:VEVENT after it, up to the first
\* such END:VEVENT; <<>> stands for no match.
isolate(block) ==
    LET begins == {b \in Positions(block, BEGIN_VEVENT) :
                      \E e \in Positions(block, END_VEVENT) : e > b}
    IN  IF begins = {} THEN <<>>
        ELSE LET b == SetMin(begins)
                 e == SetMin({x \in Positions(block, END_VEVENT) : x > b})
             IN  SubSeq(block, b, e)

\* What the loop of rebuild_ical adds to the body for one kept event,
\* without the line break that ends it.
body_block(ev) ==
    LET block == ev.raw
    IN  IF ~EndsWith(strip(block), END_VEVENT) /\ isolate(block) /= <<>>
        THEN strip(isolate(block))
        ELSE strip(block)

RECURSIVE body_of(_, _)
body_of(kept_events, i) ==
    IF i > Len(kept_events) THEN <<>>
    ELSE body_block(kept_events[i]) \o <<LF>> \o body_of(kept_events, i + 1)

\* header of rebuild_ical, before BEGIN:VCALENDAR is made sure of.
header_of(unfolded) ==
    Slice(unfolded, 1, SetMin(Positions(unfolded, BEGIN_VEVENT)) - 1)

\* footer of rebuild_ical, before END:VCALENDAR is made sure of.
footer_of(unfolded) ==
    LET end_positions == Positions(unfolded, END_VEVENT)
    IN  IF end_positions /= {}
        THEN Slice(unfolded, SetMax(end_positions) + 1, Len(unfolded))
        ELSE <<LF, END_VCALENDAR, LF>>

rebuild_ical(original_text, kept_events) ==
    LET unfolded == unfold_ical(original_text)
    IN  IF Positions(unfolded, BEGIN_VEVENT) = {} THEN original_text
        ELSE LET header == header_of(unfolded)
                 footer == footer_of(unfolded)
                 body == body_of(kept_events, 1)
                 header2 == IF ~Contains(header, <<BEGIN_VCALENDAR>>)
                            THEN <<BEGIN_VCALENDAR, LF>> \o header
                            ELSE header
                 footer2 == IF ~Contains(footer, <<END_VCALENDAR>>)
                            THEN rstrip(footer) \o <<LF, END_VCALENDAR, LF>>
                            ELSE footer
             IN  header2 \o body \o footer2

-----------------------------------------------------------------------------
(* The documents the URL may serve *)

\* The property line of an event block: a SUMMARY (one with parameters), or
\* a DESCRIPTION in a block that has no SUMMARY line at all.
PropertyLines ==
    { <<"SUMMARY", ":", "INF102", " ", "Forelesning">>,
      <<"SUMMARY", ";LANGUAGE=en", ":", "INF113", " ", "Gruppe", " ", "4">>,
      <<"SUMMARY", ":", "INF113", " ", "Gruppe", " ", "7">>,
      <<"SUMMARY", ":", "MAT111", " ", "Gruppe", " ", "2">>,
      <<"SUMMARY", ":", "MAT221", " ", "Gruppe", " ", "2">>,
      <<"SUMMARY", ":", "MAT221", " ", "Eksamen">>,
      <<"SUMMARY", ":", "MAT221", " ", "Seminar", "gruppe", " ", "1">>,
      <<"SUMMARY", ":", "INF102", " ", "Aktiv", " ", "time", " ", "0", "7">>,
      <<"SUMMARY", ":", "KJE101", " ", "Lab", " ", "1">>,
      <<"SUMMARY", ":", "CHEM101", " ", "Lab", " ", "1">>,
      <<"DESCRIPTION", ":", "Gruppe", " ", "4">> }

\* An event block of a document: its property line, and whether the block
\* is closed by END:VEVENT.
EventChoices == [line : PropertyLines, closed : BOOLEAN]

\* How a document is laid out: its line break, the fold put in front of the
\* last atom of every property line (<<>>: none), and whether the events
\* are wrapped in BEGIN:VCALENDAR ... END:VCALENDAR.
Styles ==
    { [eol |-> <<LF>>, fold |-> <<>>, wrapped |-> TRUE],
      [eol |-> <<CR, LF>>, fold |-> <<CR, LF, TAB>>, wrapped |-> TRUE],
      [eol |-> <<LF>>, fold |-> <<LF, SP>>, wrapped |-> FALSE] }

FoldLine(line, fold) ==
    IF fold = <<>> THEN line
    ELSE SubSeq(line, 1, Len(line) - 1) \o fold \o <<line[Len(line)]>>

EventText(style, choice) ==
    <<BEGIN_VEVENT>> \o style.eol \o FoldLine(choice.line, style.fold)
        \o style.eol
        \o (IF choice.closed THEN <<END_VEVENT>> \o style.eol ELSE <<>>)

RECURSIVE EventsText(_, _, _)
EventsText(style, choices, i) ==
    IF i > Len(choices) THEN <<>>
    ELSE EventText(style, choices[i]) \o EventsText(style, choices, i + 1)

Document(style, choices) ==
    (IF style.wrapped THEN <<BEGIN_VCALENDAR>> \o style.eol ELSE <<>>)
        \o EventsText(style, choices, 1)
        \o (IF style.wrapped THEN <<END_VCALENDAR>> \o style.eol ELSE <<>>)

Documents ==
    { Document(style, choices) :
        style \in Styles,
        choices \in UNION {[1..n -> EventChoices] : n \in 0..MaxEvents} }

\* The texts unfold_ical is run on by itself: every text of up to MaxTextLen
\* characters over the classes its pattern tells apart.
Chars == {CR, LF, SP, TAB, "a"}

Texts == UNION {[1..n -> Chars] : n \in 0..MaxTextLen}

-----------------------------------------------------------------------------
(* main() *)

\* ICAL_SUBSCRIPTION_URL does not start with "PASTE_", so main() never takes
\* its sys.exit(1) branch and always goes on to fetch.
Init ==
    /\ pc = "start"
    /\ remote \in Documents
    /\ src = <<>>
    /\ events = <<>>
    /\ kept = <<>>
    /\ out = <<>>
    /\ upc = "off"
    /\ text = <<>>
    /\ once = <<>>
    /\ twice = <<>>

\* src = http_get(ICAL_SUBSCRIPTION_URL)
Fetch ==
    /\ pc = "start"
    /\ src' = remote
    /\ pc' = "fetched"
    /\ UNCHANGED <<remote, events, kept, out, upc, text, once, twice>>

\* events = parse_events(src)
Parse ==
    /\ pc = "fetched"
    /\ events' = parse_events(src)
    /\ pc' = "parsed"
    /\ UNCHANGED <<remote, src, kept, out, upc, text, once, twice>>

\* kept = filter_events(events)
Filter ==
    /\ pc = "parsed"
    /\ kept' = filter_events(events)
    /\ pc' = "filtered"
    /\ UNCHANGED <<remote, src, events, out, upc, text, once, twice>>

\* out = rebuild_ical(src, kept), written to OUTPUT_FILE
Rebuild ==
    /\ pc = "filtered"
    /\ out' = rebuild_ical(src, kept)
    /\ pc' = "done"
    /\ UNCHANGED <<remote, src, events, kept, upc, text, once, twice>>

Next == Fetch \/ Parse \/ Filter \/ Rebuild

Spec == Init /\ [][Next]_vars

-----------------------------------------------------------------------------
(* unfold_ical applied once and twice to a text *)

InitUnfold ==
    /\ pc = "off"
    /\ remote = <<>>
    /\ src = <<>>
    /\ events = <<>>
    /\ kept = <<>>
    /\ out = <<>>
    /\ upc = "x"
    /\ text \in Texts
    /\ once = <<>>
    /\ twice = <<>>

UnfoldOnce ==
    /\ upc = "x"
    /\ once' = unfold_ical(text)
    /\ upc' = "once"
    /\ UNCHANGED <<pc, remote, src, events, kept, out, text, twice>>

UnfoldTwice ==
    /\ upc = "once"
    /\ twice' = unfold_ical(once)
    /\ upc' = "twice"
    /\ UNCHANGED <<pc, remote, src, events, kept, out, text, once>>

NextUnfold == UnfoldOnce \/ UnfoldTwice

SpecUnfold == InitUnfold /\ [][NextUnfold]_vars

-----------------------------------------------------------------------------
(* Vocabulary of the properties *)

\* The event has a detected course code that is a key of the keep-rule table.
Enrolled(ev) == course_code(ev) \in DOMAIN COURSE_KEEP_RULES

\* The event has a detected course code that is no key of the table.
NotEnrolled(ev) ==
    course_code(ev) /= None /\ course_code(ev) \notin DOMAIN COURSE_KEEP_RULES

InKept(ev) == \E j \in 1..Len(kept) : kept[j] = ev

Filtered == pc \in {"filtered", "done"}

Count(s, a) == Cardinality(Positions(s, a))

RECURSIVE IsSubseqFrom(_, _, _, _)
\* a[i..] is a subsequence of b[j..].
IsSubseqFrom(a, i, b, j) ==
    IF i > Len(a) THEN TRUE
    ELSE IF j > Len(b) THEN FALSE
    ELSE IF a[i] = b[j] THEN IsSubseqFrom(a, i + 1, b, j + 1)
    ELSE IsSubseqFrom(a, i, b, j + 1)

RECURSIVE Concat(_, _)
\* s[i] \o s[i+1] \o ... for a sequence of texts.
Concat(s, i) == IF i > Len(s) THEN <<>> ELSE s[i] \o Concat(s, i + 1)

RECURSIVE InOrderFrom(_, _, _, _)
\* The texts blocks[j], blocks[j+1], ... occur in s one after the other,
\* without overlap, at or after index from.
InOrderFrom(s, blocks, j, from) ==
    IF j > Len(blocks) THEN TRUE
    ELSE LET at == {p \in from..(Len(s) + 1) : MatchAt(s, blocks[j], p)}
         IN  /\ at /= {}
             /\ InOrderFrom(s, blocks, j + 1, SetMin(at) + Len(blocks[j]))

\* A fold: a line break followed by a space or a tab.
HasFold(s) == \E i \in 1..Len(s) : s[i] = LF /\ i < Len(s) /\ s[i + 1] \in {SP, TAB}

RECURSIVE FoldsThenBlank(_, _, _)
\* From index i on, s holds `seen` folds so far, then more folds, then a
\* space or a tab.
FoldsThenBlank(s, i, seen) ==
    IF i > Len(s) THEN FALSE
    ELSE IF FoldAt(s, i) > 0 THEN FoldsThenBlank(s, i + FoldAt(s, i), TRUE)
    ELSE seen /\ s[i] \in {SP, TAB}

\* A line break, then one or more folds, then a space or a tab: deleting the
\* folds brings the line break and the blank together.
HasStackedFold(s) ==
    \E i \in 1..Len(s) : s[i] = LF /\ FoldsThenBlank(s, i + 1, FALSE)

-----------------------------------------------------------------------------
(* C1 *)

\* C1 (enrollment gating): once the output is written, no event whose
\* detected course code is not a key of the keep-rule table appears in it,
\* in the body, the header or the footer.
EnrollmentGating ==
    pc = "done" =>
        \A i \in 1..Len(events) :
            NotEnrolled(events[i]) => ~Contains(out, body_block(events[i]))

-----------------------------------------------------------------------------
(* C2 *)

\* C2 (an empty pattern list drops all groups): an event of a course listed
\* with an empty pattern list whose summary is group-like is not kept by
\* filter_events and does not appear in the output.
EmptyPatternsDropGroups ==
    \A i \in 1..Len(events) :
        (/\ Enrolled(events[i])
         /\ COURSE_KEEP_RULES[course_code(events[i])] = <<>>
         /\ is_group_like(events[i]))
        => /\ Filtered => ~InKept(events[i])
           /\ pc = "done" => ~Contains(out, body_block(events[i]))

-----------------------------------------------------------------------------
(* C3 *)

-----------------------------------------------------------------------------
(* C4 *)

\* The normalization C4 speaks of, as far as it bears on the texts of the
\* model: lower case, the leading zero of a standalone number dropped ("07"
\* becomes "7"), runs of spaces collapsed, the ends trimmed.  The program
\* has no such function; it only lowers the case.
Digits == {"0", "1", "2", "4", "7"}

RECURSIVE NormalizeFrom(_, _)
NormalizeFrom(s, i) ==
    IF i > Len(s) THEN <<>>
    ELSE IF /\ s[i] = "0"
            /\ (i = 1 \/ s[i - 1] \in NonWordAtoms)
            /\ i < Len(s) /\ s[i + 1] \in Digits
         THEN NormalizeFrom(s, i + 1)
    ELSE IF s[i] = SP /\ i < Len(s) /\ s[i + 1] = SP
         THEN NormalizeFrom(s, i + 1)
    ELSE <<s[i]>> \o NormalizeFrom(s, i + 1)

Normalize(s) == strip(NormalizeFrom(lower(s), 1))

\* C4 (normalization-tolerant group matching): a group-like event of a
\* listed course that is not always-keep is kept by filter_events if and
\* only if its normalized summary contains a normalized pattern of the
\* course.
NormalizedGroupMatching ==
    Filtered =>
        \A i \in 1..Len(events) :
            (/\ Enrolled(events[i])
             /\ is_group_like(events[i])
             /\ ~is_always_keep(events[i]))
            => (InKept(events[i]) <=>
                   \E k \in 1..Len(COURSE_KEEP_RULES[course_code(events[i])]) :
                       Contains(Normalize(events[i].summary),
                                Normalize(COURSE_KEEP_RULES[course_code(events[i])][k])))

-----------------------------------------------------------------------------
(* C5 *)

\* C5 (round-trip validity): when the input holds BEGIN:VCALENDAR and
\* END:VCALENDAR, the output holds exactly one of each, BEGIN:VCALENDAR
\* first and END:VCALENDAR last, so that every event block lies between.
RoundTripValidity ==
    (/\ pc = "done"
     /\ Contains(src, <<BEGIN_VCALENDAR>>)
     /\ Contains(src, <<END_VCALENDAR>>))
    => /\ Count(out, BEGIN_VCALENDAR) = 1
       /\ Count(out, END_VCALENDAR) = 1
       /\ strip(out)[1] = BEGIN_VCALENDAR
       /\ EndsWith(strip(out), END_VCALENDAR)

-----------------------------------------------------------------------------
(* C6 *)

\* C6 as stated (unfold idempotence): for every text x,
\* unfold_ical(unfold_ical(x)) = unfold_ical(x), and unfold_ical(x) holds no
\* line break followed by a space or a tab.
UnfoldIdempotent ==
    /\ upc = "twice" => twice = once
    /\ upc \in {"once", "twice"} => ~HasFold(once)

\* C6 as amended: the same, for every text x in which no line break is
\* followed by one or more folds and then a space or a tab.
UnfoldIdempotentUnlessStacked ==
    ~HasStackedFold(text) =>
        /\ upc = "twice" => twice = once
        /\ upc \in {"once", "twice"} => ~HasFold(once)

\* C6's case: a text without stacked folds from which unfold_ical deleted a
\* fold that a space or a tab follows, unfolded twice.
UnfoldWitness ==
    /\ upc = "twice"
    /\ ~HasStackedFold(text)
    /\ \E i \in 1..Len(text) :
           /\ FoldAt(text, i) > 0
           /\ i + FoldAt(text, i) <= Len(text)
           /\ text[i + FoldAt(text, i)] \in {SP, TAB}
    /\ Len(once) < Len(text)
    /\ twice = once

-----------------------------------------------------------------------------
(* C7 *)

\* C7 (conservative default): an event whose summary yields no course code
\* is kept by filter_events, whatever words its summary has; a block with no
\* SUMMARY line has the empty summary and is such an event.
ConservativeDefault ==
    \A i \in 1..Len(events) :
        /\ ~Contains(events[i].raw, <<"SUMMARY">>)
               => events[i].summary = <<>> /\ course_code(events[i]) = None
        /\ (Filtered /\ course_code(events[i]) = None) => InKept(events[i])

\* C7's case: the filter has kept a block without a SUMMARY line and an
\* event whose summary has a group word but no course code.
ConservativeDefaultWitness ==
    /\ Filtered
    /\ \E i \in 1..Len(events) :
           /\ ~Contains(events[i].raw, <<"SUMMARY">>)
           /\ InKept(events[i])
    /\ \E i \in 1..Len(events) :
           /\ events[i].summary /= <<>>
           /\ course_code(events[i]) = None
           /\ is_group_like(events[i])
           /\ InKept(events[i])

-----------------------------------------------------------------------------
(* C8 *)

\* C8 (lossless containment): every block that rebuild_ical writes into the
\* body for a kept event is in the output and is a contiguous part of the
\* unfolded original.
LosslessContainment ==
    pc = "done" =>
        \A j \in 1..Len(kept) :
            /\ Contains(unfold_ical(src), body_block(kept[j]))
            /\ Positions(unfold_ical(src), BEGIN_VEVENT) /= {}
                   => Contains(out, body_block(kept[j]))

\* C8's case: the output holds the block of a kept event that was folded in
\* the original and re-isolated from a segment with trailing text.
LosslessWitness ==
    /\ pc = "done"
    /\ src /= unfold_ical(src)
    /\ \E j \in 1..Len(kept) :
           /\ body_block(kept[j]) /= strip(kept[j].raw)
           /\ Contains(out, body_block(kept[j]))

-----------------------------------------------------------------------------
(* C9 *)

\* C9 (order preservation): parse_events returns the events in document
\* order, filter_events returns a subsequence of them, and the blocks of the
\* kept events stand in the output in that order.
OrderPreservation ==
    /\ pc \in {"parsed", "filtered", "done"} /\ events /= <<>>
           => Concat([k \in 1..Len(events) |-> events[k].raw], 1)
                  = Slice(unfold_ical(src),
                          SetMin(Positions(unfold_ical(src), BEGIN_VEVENT)),
                          Len(unfold_ical(src)))
    /\ Filtered => IsSubseqFrom(kept, 1, events, 1)
    /\ pc = "done" /\ events /= <<>>
           => InOrderFrom(out, [j \in 1..Len(kept) |-> body_block(kept[j])], 1, 1)

\* C9's case: two different events were kept and their blocks written.
OrderWitness ==
    /\ pc = "done"
    /\ Len(kept) >= 2
    /\ kept[1] /= kept[2]
    /\ body_block(kept[1]) /= body_block(kept[2])
    /\ Contains(out, body_block(kept[1]) \o <<LF>> \o body_block(kept[2]))

-----------------------------------------------------------------------------
(* C10 *)

\* C10 (block isolation): every block written into the body starts at
\* BEGIN:VEVENT and ends at the event's own END:VEVENT, the only one in it,
\* and holds nothing of the calendar footer, also for the last segment and
\* for a segment without END:VEVENT.
BlockIsolation ==
    pc = "done" =>
        \A j \in 1..Len(kept) :
            LET block == body_block(kept[j])
            IN  /\ block[1] = BEGIN_VEVENT
                /\ EndsWith(block, END_VEVENT)
                /\ Count(block, END_VEVENT) = 1
                /\ ~Contains(block, <<END_VCALENDAR>>)

=============================================================================
